---- MODULE Spec2Model ----
(***************************************************************************)
(* news_scraper: the Collector's round-robin merge of the per-source       *)
(* article streams (src/collector.py), the fetch/cache layer and the       *)
(* parser resolution of the scraper (src/scraper.py).                      *)
(*                                                                         *)
(* The specifications share the module's variables; each one moves only    *)
(* its own component and leaves the others at their initial value:         *)
(*   Spec        Collector.article_stream                                  *)
(*   FetchSpec   BaseArticleParser.get_soup and the content cache          *)
(*   FetchFair   FetchSpec with a get_soup that keeps taking its steps     *)
(*   ParseSpec   one turn of fetch_new's loop: denylist, choose_parser,    *)
(*               parse_article                                             *)
(*   SourceSpec  Source.fetch_new, run after run, and the failed-href logs *)
(*   RaceSpec    get_soup of one href in two processes at once             *)
(***************************************************************************)
EXTENDS Integers, Sequences, FiniteSets, TLC

(***************************************************************************)
(* Bounds of the model.                                                    *)
(***************************************************************************)
\* longest per-source stream the Collector is run over
MaxLen == 3

\* most non-200 answers the origin gives to one get_soup
MaxAttempts == 2

\* longest candidate URL, in characters
MaxUrlLen == 3

\* most rules in a parser_list
MaxRules == 2

\* most candidates the calls of get_hrefs return in one behaviour, all
\* calls of fetch_new together
MaxHrefs == 3

(***************************************************************************)
(* Values shared by the components.                                        *)
(***************************************************************************)
\* Python's None
None == "None"

\* s is a prefix of t
IsPrefix(s, t) == Len(s) <= Len(t) /\ SubSeq(t, 1, Len(s)) = s

\* all sequences over S of length at most n
SeqUpTo(S, n) == UNION {[1..k -> S] : k \in 0..n}

\* an optional value: << >> where Python has None, <<x>> for the value x
Nothing == << >>

Some(x) == <<x>>

(***************************************************************************)
(* State.                                                                  *)
(***************************************************************************)
VARIABLES
    \* Collector.article_stream
    feed,       \* feed[s]: the (href, article) pairs source s's stream holds
    pos,        \* pos[s]: how many pairs have been pulled from s's stream
    sources,    \* the list `sources`
    streams,    \* the list `streams`, parallel to `sources`
    i,          \* enumerate index of the for loop over `streams`
    out,        \* the articles yielded to the consumer so far
    gen,        \* the generator: "running", "returned" or "raised"
    exc,        \* the exception the consumer saw, or None
    \* BaseArticleParser.get_soup and the .content_cache directory
    files,      \* files[loc]: Nothing when no file is at loc, else Some(text)
    fpc,        \* where get_soup is: "idle", "loop" or "returned"
    fhref,      \* get_soup's argument `href`
    content,    \* get_soup's local `content`
    resp,       \* get_soup's local `resp`: Nothing or Some(<<status, text>>)
    calls,      \* requests.get calls made by the get_soup in progress
    ret,        \* the text get_soup hands to BeautifulSoup and returns
    last,       \* the get_soup completed last: Some(<<href, text, calls>>)
    fexc,       \* the exception the last cache operation ended with, or None
    removed,    \* what os.remove took away since the last fetch ended:
                \* Nothing, or Some(<<href, text>>)
    \* Source.fetch_new's loop body for one candidate (scraper.py)
    parser_list,        \* cls.parser_list: the rules (identifier, parser)
    blacklist,          \* cls.get_blacklist()
    cand,               \* the candidate `href` of this turn of the loop
    ppc,                \* "start", "resolve", "chosen", "parsed" or "done"
    parser,             \* parse_article's local `parser`, None included
    page,               \* the page get_soup fetched for the candidate
    soup,               \* what the selectors of `parser` find in the page
    caught,             \* the exception parse_article caught, or None
    article,            \* fetch_new's local `article`: Nothing for None
    articles,           \* fetch_new's list `articles`
    erroneous_hrefs,    \* fetch_new's list `erroneous_hrefs`
    fnexc,              \* the exception fetch_new ended with, or None
    \* Source.fetch_new as a whole (scraper.py and sources.py)
    mod,        \* the module whose fetch_new runs: "scraper" or "sources"
    cls,        \* the class fetch_new is called on
    hrefs,      \* fetch_new's local `hrefs`, the result of cls.get_hrefs()
    taken,      \* how many candidates the for loop has taken
    fn,         \* "idle" between calls of fetch_new, "loop" inside one
    result,     \* what the last fetch_new returned: Nothing or Some(list)
    log,        \* log[name]: the text of the file .failed_hrefs/<name>
    total,      \* candidates get_hrefs has returned so far, all calls together
    \* get_soup(href) called by several processes at once, for one href
    body,       \* resp.text: the body the origin answers the href with
    shared,     \* the cache file of the href: Nothing, or Some(data)
    rpc,        \* rpc[p]: where process p is in get_soup
    offset,     \* offset[p]: the position of p's writer in the file
    got         \* got[p]: what p's get_soup returned, Nothing before that

collectorVars == <<feed, pos, sources, streams, i, out, gen, exc>>

fetchVars ==
    <<files, fpc, fhref, content, resp, calls, ret, last, fexc, removed>>

parseVars ==
    <<parser_list, blacklist, cand, ppc, parser, page, soup, caught, article,
      articles, erroneous_hrefs, fnexc>>

sourceVars == <<mod, cls, hrefs, taken, fn, result, log, total>>

raceVars == <<body, shared, rpc, offset, got>>

vars == <<collectorVars, fetchVars, parseVars, sourceVars, raceVars>>

(***************************************************************************)
(* Collector.article_stream (src/collector.py).                            *)
(***************************************************************************)

\* sources = [ BBC, Guardian, NYTimes ]
SourceList == <<"BBC", "Guardian", "NYTimes">>

SourceNames == {SourceList[n] : n \in 1..Len(SourceList)}

\* a truthy href, as a stream gives it for a parsed article
SomeHref == "href"

\* What one stream can hold: each pull gives (href, article), href None when
\* the candidate could not be parsed; after the last pair, StopIteration.
Feeds == SeqUpTo({None, SomeHref}, MaxLen)

\* the article of the n-th pair of source s
Article(s, n) == <<s, n>>

\* the test of the href left out: every pair counts as an article
FalsyNever(href) == FALSE

\* `if not href`
Falsy(href) == href = None \/ href = ""

\* next(stream) raises StopIteration
Exhausted(s) == pos[s] = Len(feed[s])

\* the href of the pair next(stream) returns
NextHref(s) == feed[s][pos[s] + 1]

\* the stream the for loop is at: streams[i]
CurrentStream == streams[i + 1]

\* a loop that starts over at the first cursor after every pull
NextIndexRestart(idx, n) == 0

\* The loop advance taken after a yield or a `continue`: the next cursor of
\* this pass or, past the last one, `while True` starts the next pass.

NextIndex(idx, n) == IF idx + 1 < n THEN idx + 1 ELSE 0

CollectorInit ==
    /\ feed \in [SourceNames -> Feeds]
    /\ pos = [s \in SourceNames |-> 0]
    /\ sources = SourceList
    /\ streams = SourceList
    /\ i = 0
    /\ out = << >>
    /\ gen = "running"
    /\ exc = None

\* the state of the Collector in the specifications of the other components
CollectorIdle ==
    /\ feed = [s \in SourceNames |-> << >>]
    /\ pos = [s \in SourceNames |-> 0]
    /\ sources = SourceList
    /\ streams = SourceList
    /\ i = 0
    /\ out = << >>
    /\ gen = "running"
    /\ exc = None

\* (href, article) = next(stream) gave a truthy href: `yield article`, then
\* the loop goes on to the next cursor.
Yield ==
    /\ gen = "running"
    /\ ~Exhausted(CurrentStream)
    /\ ~Falsy(NextHref(CurrentStream))
    /\ out' = Append(out, Article(CurrentStream, pos[CurrentStream] + 1))
    /\ pos' = [pos EXCEPT ![CurrentStream] = @ + 1]
    /\ i' = NextIndex(i, Len(streams))
    /\ UNCHANGED <<feed, sources, streams, gen, exc>>
    /\ UNCHANGED <<fetchVars, parseVars, sourceVars, raceVars>>

\* (href, article) = next(stream) gave a falsy href: `continue`.
Continue ==
    /\ gen = "running"
    /\ ~Exhausted(CurrentStream)
    /\ Falsy(NextHref(CurrentStream))
    /\ pos' = [pos EXCEPT ![CurrentStream] = @ + 1]
    /\ i' = NextIndex(i, Len(streams))
    /\ UNCHANGED <<feed, sources, streams, out, gen, exc>>
    /\ UNCHANGED <<fetchVars, parseVars, sourceVars, raceVars>>

\* next(stream) raised StopIteration. The handler logs and then evaluates
\* `streams.remove(s)`: `s` is bound only inside the list comprehension that
\* built `streams` and is no global of the module, so the lookup raises
\* NameError inside the handler. The generator ends with that exception; the
\* removal from `streams` and `sources`, the `return None` and the `break`
\* that follow are never executed.
StopIteration ==
    /\ gen = "running"
    /\ Exhausted(CurrentStream)
    /\ gen' = "raised"
    /\ exc' = "NameError"
    /\ UNCHANGED <<feed, pos, sources, streams, i, out>>
    /\ UNCHANGED <<fetchVars, parseVars, sourceVars, raceVars>>

CollectorNext == Yield \/ Continue \/ StopIteration

(***************************************************************************)
(* BaseArticleParser.get_soup and the content cache (src/scraper.py).      *)
(***************************************************************************)
\* Text is a sequence of characters; CR and LF stand for "\r" and "\n".
CR == "CR"

LF == "LF"

\* the hrefs get_soup is called with
Urls == {"u1", "u2"}

\* the bodies the origin can answer with
Bodies == { << >>, <<"a">>, <<"b">>, <<"a", CR, LF>> }

\* resp.status_code of the success the loop waits for
StatusOK == 200

\* the status codes the origin can answer with
Statuses == {StatusOK, 404}

\* hashlib.md5(href.encode('utf-8')).hexdigest(): no two hrefs of Urls collide
get_cache_id(href) == <<"md5", href>>

\* f'.content_cache/{cls.get_cache_id(href)}.html'
cache_loc(href) == <<".content_cache", get_cache_id(href), ".html">>

CacheLocs == {cache_loc(u) : u \in Urls}

\* os.linesep of the POSIX hosts the scraper's paths are written for
linesep == <<LF>>

\* writer.write(text) on a file opened in text mode, newline=None: every
\* "\n" is written as os.linesep, every other character as it is.
RECURSIVE WriteText(_)
WriteText(text) ==
    IF text = << >> THEN << >>
    ELSE (IF Head(text) = LF THEN linesep ELSE <<Head(text)>>)
             \o WriteText(Tail(text))

\* reader.read() on a file opened in text mode, newline=None (universal
\* newlines): "\r\n" and a lone "\r" are both read as "\n".
RECURSIVE ReadText(_)
ReadText(data) ==
    IF data = << >> THEN << >>
    ELSE IF Head(data) = CR
         THEN IF Len(data) >= 2 /\ data[2] = LF
              THEN <<LF>> \o ReadText(SubSeq(data, 3, Len(data)))
              ELSE <<LF>> \o ReadText(Tail(data))
         ELSE <<Head(data)>> \o ReadText(Tail(data))

\* the test without the size: os.path.exists(cache_loc) alone
CacheValidNoSize(href) == files[cache_loc(href)] # Nothing

\* os.path.exists(cache_loc) and os.path.getsize(cache_loc) > 0

CacheValid(href) ==
    /\ files[cache_loc(href)] # Nothing
    /\ Len(files[cache_loc(href)][1]) > 0

\* a check that never finds the entry: every get_soup goes to the network
check_cache_always_miss(href) == Nothing

\* _check_cache_for_content: the file's text, or None
_check_cache_for_content(href) ==
    IF CacheValid(href)
    THEN Some(ReadText(files[cache_loc(href)][1]))
    ELSE Nothing

\* the test without the status: `while resp == None`
LoopAgainUntilResponse(r) == r = Nothing

\* `while resp == None or resp.status_code is not 200`

LoopAgain(r) == IF r = Nothing THEN TRUE ELSE r[1][1] # StatusOK

\* _cache_content: open(cache_loc, 'w+') creates or truncates the file and
\* writer.write(str(content)) fills it.
_cache_content(href, text) ==
    [files EXCEPT ![cache_loc(href)] = Some(WriteText(text))]

FetchInit ==
    /\ files = [loc \in CacheLocs |-> Nothing]
    /\ fpc = "idle"
    /\ fhref = None
    /\ content = Nothing
    /\ resp = Nothing
    /\ calls = 0
    /\ ret = << >>
    /\ last = Nothing
    /\ fexc = None
    /\ removed = Nothing

\* the state of the fetch layer in the specifications of the other components
FetchIdle == FetchInit

\* get_soup(href) up to the cache check: a hit is returned as it is read, a
\* miss enters the request loop.
GetSoup(href) ==
    /\ fpc = "idle"
    /\ fhref' = href
    /\ content' = _check_cache_for_content(href)
    /\ resp' = Nothing
    /\ calls' = 0
    /\ IF content' = Nothing
       THEN fpc' = "loop" /\ ret' = << >>
       ELSE fpc' = "returned" /\ ret' = content'[1]
    /\ fexc' = None
    /\ UNCHANGED <<files, last, removed>>
    /\ UNCHANGED <<collectorVars, parseVars, sourceVars, raceVars>>

\* One turn of the loop: resp = requests.get(href, headers), then sleep(5).
\* The origin answers any status with any body; the model lets it refuse at
\* most MaxAttempts times in one get_soup.
Get(status, text) ==
    /\ fpc = "loop"
    /\ LoopAgain(resp)
    /\ status # StatusOK => calls < MaxAttempts
    /\ resp' = Some(<<status, text>>)
    /\ calls' = calls + 1
    /\ UNCHANGED <<files, fpc, fhref, content, ret, last, fexc, removed>>
    /\ UNCHANGED <<collectorVars, parseVars, sourceVars, raceVars>>

\* requests.get raises (no connection, a timeout of the transport): nothing
\* in get_soup catches it, the call ends with the exception and the cache
\* is as it was.
GetRaises ==
    /\ fpc = "loop"
    /\ LoopAgain(resp)
    /\ fexc' = "RequestException"
    /\ last' = Nothing
    /\ fpc' = "idle"
    /\ fhref' = None
    /\ content' = Nothing
    /\ resp' = Nothing
    /\ calls' = 0
    /\ ret' = << >>
    /\ removed' = Nothing
    /\ UNCHANGED files
    /\ UNCHANGED <<collectorVars, parseVars, sourceVars, raceVars>>

\* The loop is left: cls._cache_content(href, resp.text), and resp.text is
\* what BeautifulSoup is given.
Store ==
    /\ fpc = "loop"
    /\ ~LoopAgain(resp)
    /\ files' = _cache_content(fhref, resp[1][2])
    /\ ret' = resp[1][2]
    /\ fpc' = "returned"
    /\ UNCHANGED <<fhref, content, resp, calls, last, fexc, removed>>
    /\ UNCHANGED <<collectorVars, parseVars, sourceVars, raceVars>>

\* get_soup's caller has the soup; the call is over.
Return ==
    /\ fpc = "returned"
    /\ last' = Some(<<fhref, ret, calls>>)
    /\ fpc' = "idle"
    /\ fhref' = None
    /\ content' = Nothing
    /\ resp' = Nothing
    /\ calls' = 0
    /\ ret' = << >>
    /\ removed' = Nothing
    /\ UNCHANGED <<files, fexc>>
    /\ UNCHANGED <<collectorVars, parseVars, sourceVars, raceVars>>

\* _delete_content_from_cache(href): os.remove(cache_loc); where no file is,
\* os.remove raises FileNotFoundError and the cache is as it was.
_delete_content_from_cache(href) ==
    /\ fpc = "idle"
    /\ files' = [files EXCEPT ![cache_loc(href)] = Nothing]
    /\ fexc' = IF files[cache_loc(href)] = Nothing
               THEN "FileNotFoundError" ELSE None
    /\ last' = Nothing
    /\ removed' = IF files[cache_loc(href)] = Nothing
                  THEN removed
                  ELSE Some(<<href, files[cache_loc(href)][1]>>)
    /\ UNCHANGED <<fpc, fhref, content, resp, calls, ret>>
    /\ UNCHANGED <<collectorVars, parseVars, sourceVars, raceVars>>

FetchNext ==
    \/ \E href \in Urls : GetSoup(href)
    \/ \E status \in Statuses, text \in Bodies : Get(status, text)
    \/ GetRaises
    \/ Store
    \/ Return
    \/ \E href \in Urls : _delete_content_from_cache(href)

(***************************************************************************)
(* Source.choose_parser, Source.parse_article and BaseArticleParser.parse  *)
(* (src/scraper.py), run for one candidate of fetch_new's loop.            *)
(***************************************************************************)
\* A URL and a rule identifier are sequences of characters.
UrlChars == {"a", "b"}

\* the candidate hrefs
CandUrls == SeqUpTo(UrlChars, MaxUrlLen)

\* the identifiers a rule can have: one character, and a longer one that
\* starts with it
Identifiers == { <<"a">>, <<"b">>, <<"a", "b">>, <<"b", "a">> }

\* The five extractors of the module; rule n of a list names
\* ExtractorList[n].
ExtractorList ==
    <<"BBCArticleParser", "GuardianArticleParser", "BBCThreeArticleParser",
      "BBCSportArticleParser", "BBCNewsroundArticleParser">>

\* the rule list whose identifiers are ids
RulesOf(ids) == [n \in 1..Len(ids) |-> <<ids[n], ExtractorList[n]>>]

RuleLists == {RulesOf(ids) : ids \in SeqUpTo(Identifiers, MaxRules)}

\* The rules ("site/news/", P1), ("site/news/sport/", P2) and the two URLs
\* resolved against them, written segment by segment.
ExampleRules ==
    RulesOf(<< <<"site/", "news/">>, <<"site/", "news/", "sport/">> >>)

ExampleSportUrl == <<"https://", "site/", "news/", "sport/", "123">>

ExamplePoliticsUrl == <<"https://", "site/", "news/", "politics/", "1">>

\* The denylists of the sources: none, one entry, two entries. An entry is a
\* path fragment, never the empty string.
Blacklists ==
    { << >>, << <<"b", "b">> >>, << <<"a", "a">>, <<"b", "b">> >> }

\* neither the title element nor the body container is found
NoSoup == [title |-> Nothing, body |-> Nothing]

\* What get_soup gives parse: whether the extractor's selectors find the
\* title element (and its text) and the body container (and the texts of
\* its paragraphs).
Soups ==
    [title : {Nothing, Some(<<"T">>)},
     body  : {Nothing, Some(<< >>), Some(<< <<"p">>, <<"q">> >>)}]

\* Every extractor looks for elements of its own: h1.story-body__h1 and
\* div.story-body__inner for BBCArticleParser, h1.story-headline and
\* div#story-body for BBCSportArticleParser, and so on. A page is written
\* in the markup of one of them; the extractors a rule list can name are
\* enough.
Templates == {ExtractorList[n] : n \in 1..MaxRules}

\* the pages get_soup can return: the markup family and what is in it
Pages == [template : Templates, marks : Soups]

\* what the selectors of extractor p find in page pg
View(p, pg) == IF pg.template = p THEN pg.marks ELSE NoSoup

\* href.find(sub): the lowest index at which sub occurs in href, -1 if none
RECURSIVE FindFrom(_, _, _)
FindFrom(href, sub, p) ==
    IF p + Len(sub) > Len(href) THEN -1
    ELSE IF SubSeq(href, p + 1, p + Len(sub)) = sub THEN p
         ELSE FindFrom(href, sub, p + 1)

find(href, sub) == FindFrom(href, sub, 0)

\* `sub in href`
In(sub, href) ==
    \E p \in 0..Len(href) :
        p + Len(sub) <= Len(href) /\ SubSeq(href, p + 1, p + Len(sub)) = sub

\* min(list, key = lambda p : href.find(p[0])): the first element of the list
\* whose key is the least; `best` is the least one so far.
RECURSIVE MinByFind(_, _, _)
MinByFind(best, rest, href) ==
    IF rest = << >> THEN best
    ELSE MinByFind(IF find(href, Head(rest)[1]) < find(href, best[1])
                   THEN Head(rest) ELSE best,
                   Tail(rest), href)

\* max(list, key = ...) in the place of min: the first element whose key is
\* the greatest
RECURSIVE MaxByFind(_, _, _)
MaxByFind(best, rest, href) ==
    IF rest = << >> THEN best
    ELSE MaxByFind(IF find(href, Head(rest)[1]) > find(href, best[1])
                   THEN Head(rest) ELSE best,
                   Tail(rest), href)

\* [(identifier, parser) for ... in cls.parser_list if identifier in href]
MatchingRules(plist, href) == SelectSeq(plist, LAMBDA r : In(r[1], href))

\* choose_parser with max in the place of min
choose_parser_max(plist, href) ==
    LET matching == MatchingRules(plist, href)
    IN  IF matching = << >> THEN None
        ELSE MaxByFind(Head(matching), Tail(matching), href)[2]

\* a choose_parser that falls back on a default extractor when no rule
\* matches
choose_parser_default(plist, href) ==
    LET matching == MatchingRules(plist, href)
    IN  IF matching = << >> THEN ExtractorList[1]
        ELSE MinByFind(Head(matching), Tail(matching), href)[2]

\* choose_parser: min(...)[1]; on an empty list min raises ValueError, which
\* is caught and logged, and None is returned.
choose_parser(plist, href) ==
    LET matching == MatchingRules(plist, href)
    IN  IF matching = << >> THEN None
        ELSE MinByFind(Head(matching), Tail(matching), href)[2]

\* The result of a call: the exception it raised (None if it returned) and
\* the value it returned.
Returned(v) == [exc |-> None, val |-> v]

Raised(e) == [exc |-> e, val |-> Nothing]

\* get_title. The BBC extractors return the text, or None without a title
\* element; GuardianArticleParser reads title_element.text of whatever find
\* gave, AttributeError on None.
get_title(p, doc) ==
    IF doc.title # Nothing THEN Returned(doc.title)
    ELSE IF p = "GuardianArticleParser" THEN Raised("AttributeError")
         ELSE Returned(Nothing)

\* get_paragraphs: story_element_div.findAll(...) on what find gave,
\* AttributeError on None; else the list of the paragraphs' texts.
get_paragraphs(p, doc) ==
    IF doc.body = Nothing THEN Raised("AttributeError")
    ELSE Returned(doc.body)

\* ' '.join(list)
RECURSIVE Join(_)
Join(list) ==
    IF list = << >> THEN << >>
    ELSE IF Len(list) = 1 THEN list[1]
         ELSE list[1] \o <<" ">> \o Join(Tail(list))

\* parser.parse(href) on the document doc that get_soup(href) returned:
\* ' '.join([cls.get_title(soup)] + cls.get_paragraphs(soup)). The title is
\* taken first, then the paragraphs; join raises TypeError on an item that is
\* None.
parse(p, doc) ==
    LET title == get_title(p, doc)
        paras == get_paragraphs(p, doc)
    IN  IF title.exc # None THEN Raised(title.exc)
        ELSE IF paras.exc # None THEN Raised(paras.exc)
        ELSE IF title.val = Nothing THEN Raised("TypeError")
        ELSE Returned(Some(Join(<<title.val[1]>> \o paras.val[1])))

\* an except clause that catches nothing
CatchesNothing(clause, e) == FALSE

\* Whether `except <clause>` catches exception e: `except Exception` catches
\* every exception that parsing raises, a clause that names a class of the
\* application catches that class.
Catches(clause, e) == clause = "Exception" \/ clause = e

\* parse_article after choose_parser: parser.parse(href) inside
\* `except Exception`; with parser None the attribute lookup None.parse
\* raises AttributeError, caught like the others. What is caught is logged
\* and None is returned.
parse_article(p, doc) ==
    IF p = None THEN Raised("AttributeError") ELSE parse(p, doc)

\* no page fetched yet
NoPage == [template |-> None, marks |-> NoSoup]

ParseInit ==
    /\ parser_list \in RuleLists \cup {ExampleRules}
    /\ blacklist \in Blacklists
    /\ cand \in CandUrls \cup {ExampleSportUrl, ExamplePoliticsUrl}
    /\ ppc = "start"
    /\ parser = None
    /\ page = NoPage
    /\ soup = NoSoup
    /\ caught = None
    /\ article = Nothing
    /\ articles = << >>
    /\ erroneous_hrefs = << >>
    /\ fnexc = None

\* the state of the resolver in the specifications of the other components
ParseIdle ==
    /\ parser_list = << >>
    /\ blacklist = << >>
    /\ cand = << >>
    /\ ppc = "start"
    /\ parser = None
    /\ page = NoPage
    /\ soup = NoSoup
    /\ caught = None
    /\ article = Nothing
    /\ articles = << >>
    /\ erroneous_hrefs = << >>
    /\ fnexc = None

\* a denylist that drops a candidate only when an entry is the whole href
BlacklistedExact(href) == \E n \in 1..Len(blacklist) : blacklist[n] = href

\* `if any(x for x in cls.get_blacklist() if x in href): continue`; any()
\* takes the truth of x itself, so an empty entry never counts.
Blacklisted(href) ==
    \E n \in 1..Len(blacklist) : blacklist[n] # << >> /\ In(blacklist[n], href)

CheckBlacklist ==
    /\ fn = "loop"
    /\ mod = "scraper"
    /\ ppc = "start"
    /\ ppc' = IF Blacklisted(cand) THEN "done" ELSE "resolve"
    /\ UNCHANGED <<parser_list, blacklist, cand, parser, page, soup, caught,
                   article, articles, erroneous_hrefs, fnexc>>
    /\ UNCHANGED <<collectorVars, fetchVars, sourceVars, raceVars>>

\* parse_article: parser = cls.choose_parser(href)
ChooseParser ==
    /\ ppc = "resolve"
    /\ parser' = choose_parser(parser_list, cand)
    /\ ppc' = "chosen"
    /\ UNCHANGED <<parser_list, blacklist, cand, page, soup, caught, article,
                   articles, erroneous_hrefs, fnexc>>
    /\ UNCHANGED <<collectorVars, fetchVars, sourceVars, raceVars>>

\* parse_article: try: return parser.parse(href) / except Exception: return
\* None, on the page pg that get_soup has for the href. With parser None
\* nothing is fetched; pg = NoPage is the get_soup in which requests.get
\* raised, and parse ends with that exception.
ParseArticle(pg) ==
    /\ ppc = "chosen"
    /\ page' = IF parser = None THEN NoPage ELSE pg
    /\ soup' = IF parser = None THEN NoSoup ELSE View(parser, pg)
    /\ LET r == IF parser # None /\ pg = NoPage
                THEN Raised("RequestException")
                ELSE parse_article(parser, soup')
       IN  IF r.exc = None \/ Catches("Exception", r.exc)
           THEN /\ caught' = r.exc
                /\ article' = r.val
                /\ ppc' = "parsed"
                /\ UNCHANGED fnexc
           ELSE /\ fnexc' = r.exc
                /\ ppc' = "raised"
                /\ UNCHANGED <<caught, article>>
    /\ UNCHANGED <<parser_list, blacklist, cand, parser, articles,
                   erroneous_hrefs>>
    /\ UNCHANGED <<collectorVars, fetchVars, sourceVars, raceVars>>

\* a loop body that puts the href in erroneous_hrefs whatever parse_article
\* returned
RecordAlwaysFailed ==
    /\ ppc = "parsed"
    /\ articles' = IF article # Nothing
                   THEN Append(articles, article[1]) ELSE articles
    /\ erroneous_hrefs' = Append(erroneous_hrefs, cand)
    /\ ppc' = "done"
    /\ UNCHANGED <<parser_list, blacklist, cand, parser, page, soup, caught,
                   article, fnexc>>
    /\ UNCHANGED <<collectorVars, fetchVars, sourceVars, raceVars>>

\* fetch_new: `if article is not None: articles.append(article)` /
\* `else: erroneous_hrefs.append(href)`
Record ==
    /\ ppc = "parsed"
    /\ IF article # Nothing
       THEN /\ articles' = Append(articles, article[1])
            /\ UNCHANGED erroneous_hrefs
       ELSE /\ erroneous_hrefs' = Append(erroneous_hrefs, cand)
            /\ UNCHANGED articles
    /\ ppc' = "done"
    /\ UNCHANGED <<parser_list, blacklist, cand, parser, page, soup, caught,
                   article, fnexc>>
    /\ UNCHANGED <<collectorVars, fetchVars, sourceVars, raceVars>>

ParseNext ==
    \/ CheckBlacklist
    \/ ChooseParser
    \/ \E pg \in Pages \cup {NoPage} : ParseArticle(pg)
    \/ Record

(***************************************************************************)
(* Source.fetch_new from get_hrefs to the return, in both modules          *)
(* (src/scraper.py, src/sources.py), and the .failed_hrefs logs.           *)
(***************************************************************************)
\* The classes fetch_new is called on, with their module: BBC of scraper.py,
\* BBC and Guardian of sources.py (NYTimes is run like Guardian).
Classes ==
    { <<"scraper", "BBC">>, <<"sources", "BBC">>, <<"sources", "Guardian">> }

\* cls.__name__ of the classes: one log file for each
LogNames == {c[2] : c \in Classes}

\* The hrefs a home page can link to: one that the first rule of BBC matches,
\* one that the second rule matches and the denylist holds, one that no rule
\* matches.
SrcUrls == { <<"a">>, <<"b", "b">>, <<"c">> }

\* what get_hrefs() can return
HrefLists == SeqUpTo(SrcUrls, MaxHrefs)

\* BBC.parser_list of scraper.py, two rules of it; the classes of sources.py
\* have no rule list.
parser_list_of(m, c) ==
    IF m = "scraper" THEN RulesOf(<< <<"a">>, <<"b">> >>) ELSE << >>

\* BBC.get_blacklist() of scraper.py, one entry of it; in sources.py the
\* denylist test is commented out.
get_blacklist(m, c) == IF m = "scraper" THEN << <<"b", "b">> >> ELSE << >>

\* the class attribute `parser` of the classes of sources.py
parser_of(c) ==
    IF c = "BBC" THEN "BBCArticleParser" ELSE "GuardianArticleParser"

\* The pages get_soup can return for href: in the markup of the first
\* extractor, with or without the title, with or without the body container,
\* whose one paragraph is the text of href.
PagesOf(href) ==
    { [template |-> ExtractorList[1], marks |-> [title |-> ti, body |-> b]] :
        ti \in {Nothing, Some(<<"T">>)}, b \in {Nothing, Some(<<href>>)} }

\* parser.parse(href) of the `parsers` module that sources.py imports: the
\* title, if there is one, and the paragraphs joined by spaces; without the
\* body container, ArticleParseException.
parsers_parse(p, doc) ==
    IF doc.body = Nothing THEN Raised("ArticleParseException")
    ELSE Returned(Some(Join((IF doc.title = Nothing THEN << >>
                             ELSE <<doc.title[1]>>) \o doc.body[1])))

\* for href in hrefs: writer.write(href + '\n')
RECURSIVE Lines(_)
Lines(list) ==
    IF list = << >> THEN << >>
    ELSE Head(list) \o <<LF>> \o Lines(Tail(list))

\* the log opened with 'w': what was there is truncated
write_erroneous_truncating(c, list) ==
    [log EXCEPT ![c] = WriteText(Lines(list))]

\* _write_erroneous_article_hrefs: open(f'.failed_hrefs/{cls.__name__}', 'a')
\* and one write per href; what the file held stays, the lines are added at
\* its end.
_write_erroneous_article_hrefs(c, list) ==
    [log EXCEPT ![c] = @ \o WriteText(Lines(list))]

SourceInit ==
    /\ mod = "scraper"
    /\ cls = "BBC"
    /\ hrefs = << >>
    /\ taken = 0
    /\ fn = "idle"
    /\ result = Nothing
    /\ log = [c \in LogNames |-> << >>]
    /\ total = 0

\* the state of fetch_new in the specifications of the Collector and of the
\* fetch layer: not called
SourceIdle == SourceInit

\* the state of fetch_new in the specification of one loop turn: the loop of
\* scraper.py's BBC is at its only candidate
SourceOneTurn ==
    /\ mod = "scraper"
    /\ cls = "BBC"
    /\ hrefs = <<cand>>
    /\ taken = 1
    /\ fn = "loop"
    /\ result = Nothing
    /\ log = [c \in LogNames |-> << >>]
    /\ total = 1

\* fetch_new up to the loop: articles = [], erroneous_hrefs = [],
\* hrefs = cls.get_hrefs() returned list.
GetHrefs(m, c, list) ==
    /\ fn = "idle"
    /\ total + Len(list) <= MaxHrefs
    /\ mod' = m
    /\ cls' = c
    /\ hrefs' = list
    /\ taken' = 0
    /\ fn' = "loop"
    /\ result' = Nothing
    /\ total' = total + Len(list)
    /\ parser_list' = parser_list_of(m, c)
    /\ blacklist' = get_blacklist(m, c)
    /\ cand' = << >>
    /\ ppc' = "done"
    /\ parser' = None
    /\ page' = NoPage
    /\ soup' = NoSoup
    /\ caught' = None
    /\ article' = Nothing
    /\ articles' = << >>
    /\ erroneous_hrefs' = << >>
    /\ fnexc' = None
    /\ UNCHANGED log
    /\ UNCHANGED <<collectorVars, fetchVars, raceVars>>

\* cls.get_hrefs() raises (requests.get of the home page fails): nothing in
\* fetch_new catches it, the call ends with the exception before the loop
\* and before the log is opened.
GetHrefsRaises(m, c) ==
    /\ fn = "idle"
    /\ mod' = m
    /\ cls' = c
    /\ hrefs' = << >>
    /\ taken' = 0
    /\ result' = Nothing
    /\ parser_list' = parser_list_of(m, c)
    /\ blacklist' = get_blacklist(m, c)
    /\ cand' = << >>
    /\ ppc' = "done"
    /\ parser' = None
    /\ page' = NoPage
    /\ soup' = NoSoup
    /\ caught' = None
    /\ article' = Nothing
    /\ articles' = << >>
    /\ erroneous_hrefs' = << >>
    /\ fnexc' = "RequestException"
    /\ UNCHANGED <<fn, log, total>>
    /\ UNCHANGED <<collectorVars, fetchVars, raceVars>>

\* `for href in hrefs`: the loop takes its next candidate.
ForHref ==
    /\ fn = "loop"
    /\ ppc = "done"
    /\ taken < Len(hrefs)
    /\ taken' = taken + 1
    /\ cand' = hrefs[taken + 1]
    /\ ppc' = "start"
    /\ parser' = None
    /\ page' = NoPage
    /\ soup' = NoSoup
    /\ caught' = None
    /\ article' = Nothing
    /\ UNCHANGED <<parser_list, blacklist, articles, erroneous_hrefs, fnexc>>
    /\ UNCHANGED <<mod, cls, hrefs, fn, result, log, total>>
    /\ UNCHANGED <<collectorVars, fetchVars, raceVars>>

\* The loop body of sources.py on the page pg that the parser fetches:
\* `article = cls.parser.parse(href)` and `articles.append(article)` inside
\* `try`, `except ArticleParseException` with
\* `erroneous_hrefs.append(href)`; any other exception leaves fetch_new.
SourcesTurn(pg) ==
    /\ fn = "loop"
    /\ mod = "sources"
    /\ ppc = "start"
    /\ parser' = parser_of(cls)
    /\ page' = pg
    /\ soup' = pg.marks
    /\ LET r == parsers_parse(parser', soup')
       IN  IF r.exc = None
           THEN /\ article' = r.val
                /\ articles' = Append(articles, r.val[1])
                /\ ppc' = "done"
                /\ UNCHANGED <<caught, erroneous_hrefs, fnexc>>
           ELSE IF Catches("ArticleParseException", r.exc)
           THEN /\ caught' = r.exc
                /\ erroneous_hrefs' = Append(erroneous_hrefs, cand)
                /\ ppc' = "done"
                /\ UNCHANGED <<article, articles, fnexc>>
           ELSE /\ fnexc' = r.exc
                /\ ppc' = "raised"
                /\ UNCHANGED <<caught, article, articles, erroneous_hrefs>>
    /\ UNCHANGED <<parser_list, blacklist, cand>>
    /\ UNCHANGED <<collectorVars, fetchVars, sourceVars, raceVars>>

\* After the loop: cls._write_erroneous_article_hrefs(erroneous_hrefs) and
\* `return articles`. The locals of the last turn are gone with the call.
WriteAndReturn ==
    /\ fn = "loop"
    /\ ppc = "done"
    /\ taken = Len(hrefs)
    /\ log' = _write_erroneous_article_hrefs(cls, erroneous_hrefs)
    /\ result' = Some(articles)
    /\ fn' = "idle"
    /\ cand' = << >>
    /\ parser' = None
    /\ page' = NoPage
    /\ soup' = NoSoup
    /\ caught' = None
    /\ article' = Nothing
    /\ UNCHANGED <<mod, cls, hrefs, taken, total>>
    /\ UNCHANGED <<parser_list, blacklist, ppc, articles, erroneous_hrefs,
                   fnexc>>
    /\ UNCHANGED <<collectorVars, fetchVars, raceVars>>

SourceNext ==
    \/ \E c \in Classes, list \in HrefLists : GetHrefs(c[1], c[2], list)
    \/ \E c \in Classes : GetHrefsRaises(c[1], c[2])
    \/ ForHref
    \/ CheckBlacklist
    \/ ChooseParser
    \/ \E pg \in PagesOf(cand) \cup {NoPage} : ParseArticle(pg)
    \/ Record
    \/ \E pg \in PagesOf(cand) : SourcesTurn(pg)
    \/ WriteAndReturn

(***************************************************************************)
(* get_soup of one href run by two processes at once, step by step at the  *)
(* file operations of _check_cache_for_content and _cache_content          *)
(* (src/scraper.py).                                                       *)
(***************************************************************************)
\* the processes that fetch the href
Procs == {"p1", "p2"}

\* The bodies of the page, in the pieces the writer's buffer is flushed in:
\* a body longer than the buffer reaches the file in several write calls.
RaceBodies == { <<"a", "b">>, <<"a", "b", "c">> }

\* the byte a file has where nothing was written, below a later write
NUL == "NUL"

\* The file after a write of chunk at position at (from 0): a file shorter
\* than at is filled up with NUL, what was at the place of the chunk is
\* overwritten, the rest stays.
WriteAt(data, at, chunk) ==
    LET padded == IF Len(data) < at
                  THEN data \o [j \in 1..(at - Len(data)) |-> NUL]
                  ELSE data
        len == IF Len(padded) > at + Len(chunk)
               THEN Len(padded) ELSE at + Len(chunk)
    IN  [j \in 1..len |->
            IF j > at /\ j <= at + Len(chunk) THEN chunk[j - at]
            ELSE padded[j]]

RaceInit ==
    /\ body \in RaceBodies
    /\ shared \in {Nothing, Some(<< >>)}
    /\ rpc = [p \in Procs |-> "check"]
    /\ offset = [p \in Procs |-> 0]
    /\ got = [p \in Procs |-> Nothing]

\* the state of the processes in the specifications of the other components
RaceIdle ==
    /\ body = << >>
    /\ shared = Nothing
    /\ rpc = [p \in Procs |-> "check"]
    /\ offset = [p \in Procs |-> 0]
    /\ got = [p \in Procs |-> Nothing]

\* _check_cache_for_content: os.path.exists(cache_loc) and
\* os.path.getsize(cache_loc) > 0
Check(p) ==
    /\ rpc[p] = "check"
    /\ rpc' = [rpc EXCEPT ![p] =
                  IF shared # Nothing /\ Len(shared[1]) > 0
                  THEN "read" ELSE "request"]
    /\ UNCHANGED <<body, shared, offset, got>>
    /\ UNCHANGED <<collectorVars, fetchVars, parseVars, sourceVars>>

\* _check_cache_for_content: open(cache_loc, 'r') and reader.read(); get_soup
\* returns what was read.
ReadHit(p) ==
    /\ rpc[p] = "read"
    /\ got' = [got EXCEPT ![p] = Some(ReadText(shared[1]))]
    /\ rpc' = [rpc EXCEPT ![p] = "hit"]
    /\ UNCHANGED <<body, shared, offset>>
    /\ UNCHANGED <<collectorVars, fetchVars, parseVars, sourceVars>>

\* the request loop, up to the 200 that ends it
Request(p) ==
    /\ rpc[p] = "request"
    /\ rpc' = [rpc EXCEPT ![p] = "open"]
    /\ UNCHANGED <<body, shared, offset, got>>
    /\ UNCHANGED <<collectorVars, fetchVars, parseVars, sourceVars>>

\* _cache_content: open(cache_loc, 'w+') creates the file or truncates it to
\* nothing; the writer is at position 0.
OpenTruncate(p) ==
    /\ rpc[p] = "open"
    /\ shared' = Some(<< >>)
    /\ offset' = [offset EXCEPT ![p] = 0]
    /\ rpc' = [rpc EXCEPT ![p] = "write"]
    /\ UNCHANGED <<body, got>>
    /\ UNCHANGED <<collectorVars, fetchVars, parseVars, sourceVars>>

\* _cache_content: writer.write(str(content)), one flush of the buffer: the
\* next piece of the body goes to the file at the writer's position.
WriteChunk(p) ==
    /\ rpc[p] = "write"
    /\ offset[p] < Len(body)
    /\ shared' = Some(WriteAt(shared[1], offset[p],
                              WriteText(<<body[offset[p] + 1]>>)))
    /\ offset' = [offset EXCEPT ![p] = @ + 1]
    /\ UNCHANGED <<body, rpc, got>>
    /\ UNCHANGED <<collectorVars, fetchVars, parseVars, sourceVars>>

\* the `with` block is left, the file is closed; get_soup returns resp.text.
CloseStored(p) ==
    /\ rpc[p] = "write"
    /\ offset[p] = Len(body)
    /\ got' = [got EXCEPT ![p] = Some(body)]
    /\ rpc' = [rpc EXCEPT ![p] = "stored"]
    /\ UNCHANGED <<body, shared, offset>>
    /\ UNCHANGED <<collectorVars, fetchVars, parseVars, sourceVars>>

RaceNext ==
    \E p \in Procs :
        \/ Check(p)
        \/ ReadHit(p)
        \/ Request(p)
        \/ OpenTruncate(p)
        \/ WriteChunk(p)
        \/ CloseStored(p)

(***************************************************************************)
(* Specifications.                                                         *)
(***************************************************************************)
Init == CollectorInit /\ FetchIdle /\ ParseIdle /\ SourceIdle /\ RaceIdle

Next == CollectorNext

Spec == Init /\ [][Next]_vars

FetchSpecInit ==
    CollectorIdle /\ FetchInit /\ ParseIdle /\ SourceIdle /\ RaceIdle

FetchSpec == FetchSpecInit /\ [][FetchNext]_vars

\* A running get_soup takes its next step: the loop turns and, once the
\* origin has answered 200, the body is stored.
FetchFair ==
    /\ FetchSpec
    /\ WF_vars(\E status \in Statuses, text \in Bodies : Get(status, text))
    /\ WF_vars(Store)

ParseSpecInit ==
    CollectorIdle /\ FetchIdle /\ ParseInit /\ SourceOneTurn /\ RaceIdle

ParseSpec == ParseSpecInit /\ [][ParseNext]_vars

SourceSpecInit ==
    CollectorIdle /\ FetchIdle /\ ParseIdle /\ SourceInit /\ RaceIdle

SourceSpec == SourceSpecInit /\ [][SourceNext]_vars

RaceSpecInit ==
    CollectorIdle /\ FetchIdle /\ ParseIdle /\ SourceIdle /\ RaceInit

RaceSpec == RaceSpecInit /\ [][RaceNext]_vars

(***************************************************************************)
(* Collector: round-robin order (C1, C2), termination (C3), transient      *)
(* failures (C4), what the consumer sees (C5).                             *)
(***************************************************************************)
\* every stream holds exactly k parsed articles and nothing else
AllYield(k) == \A s \in SourceNames : feed[s] = [n \in 1..k |-> SomeHref]

\* A1,B1,C1,A2,B2,C2,...,Ak,Bk,Ck
RoundRobin(k) ==
    [j \in 1..(Len(SourceList) * k) |->
        Article(SourceList[((j - 1) % Len(SourceList)) + 1],
                ((j - 1) \div Len(SourceList)) + 1)]

\* C1: over sources A, B, C whose streams each yield exactly k articles and
\* no transient failure, the articles emitted are A1,B1,C1,...,Ak,Bk,Ck: at
\* every moment a prefix of that sequence, and all of it once the stream is
\* over.
C1_RoundRobinFairness ==
    \A k \in 1..MaxLen :
        AllYield(k) =>
            /\ IsPrefix(out, RoundRobin(k))
            /\ gen # "running" => out = RoundRobin(k)

\* streams of at least two articles each, all emitted
C1_Witness ==
    \E k \in 2..MaxLen :
        AllYield(k) /\ Len(out) = Len(SourceList) * k /\ gen # "running"

\* no stream holds a transient failure
NoFailures ==
    \A s \in SourceNames : \A n \in 1..Len(feed[s]) : feed[s][n] = SomeHref

\* the articles of pass p: one from every source that still has one
Pass(p) ==
    LET live == SelectSeq(SourceList, LAMBDA s : Len(feed[s]) >= p)
    IN  [n \in 1..Len(live) |-> Article(live[n], p)]

RECURSIVE PassesFrom(_)
PassesFrom(p) == IF p > MaxLen THEN << >> ELSE Pass(p) \o PassesFrom(p + 1)

\* the strict round-robin merge of the streams
Merge == PassesFrom(1)

\* C2: the second source is exhausted before the other two, which hold
\* equally many articles (the claim's B after 2 items, A and C with 5); the
\* exhausted cursor is dropped and the others go on in strict round-robin,
\* so the output is the merge A1,B1,C1,...,A3,C3,...: a prefix of it at every
\* moment and all of it once the stream is over.
C2_GracefulShrink ==
    ( /\ NoFailures
      /\ Len(feed[SourceList[2]]) < Len(feed[SourceList[1]])
      /\ Len(feed[SourceList[1]]) = Len(feed[SourceList[3]]) )
    => /\ IsPrefix(out, Merge)
       /\ gen # "running" => out = Merge

\* C3: the stream ends only by the generator returning, with the live set
\* empty and nothing raised; when every source is exhausted on its first
\* pull, the first pull ends the stream that way with no article emitted.
C3_CollectorTermination ==
    /\ gen # "running" => (gen = "returned" /\ streams = << >>)
    /\ ((\A s \in SourceNames : feed[s] = << >>) /\ gen # "running")
           => (gen = "returned" /\ out = << >>)

\* the pull in progress returns a pair whose href is None
TransientPull ==
    /\ gen = "running"
    /\ pos[streams[i + 1]] < Len(feed[streams[i + 1]])
    /\ feed[streams[i + 1]][pos[streams[i + 1]] + 1] = None

\* C4: a pull that returns a falsy href yields nothing, keeps the cursor in
\* the live set and goes on to the next cursor of the pass (or, after the
\* last cursor, to the next pass); the live set changes only at a pull that
\* signals exhaustion.
C4_TransientIsNotExhaustion ==
    /\ [][TransientPull =>
            /\ out' = out
            /\ streams' = streams
            /\ sources' = sources
            /\ gen' = "running"
            /\ pos' = [pos EXCEPT ![streams[i + 1]] = @ + 1]
            /\ i' = IF i + 1 < Len(streams) THEN i + 1 ELSE 0]_vars
    /\ [][streams' # streams =>
            pos[streams[i + 1]] = Len(feed[streams[i + 1]])]_vars

\* a transient failure was pulled from a cursor that is still live, and a
\* later cursor went on to yield
C4_Witness ==
    \E n \in 1..Len(streams) :
        /\ pos[streams[n]] > 0
        /\ feed[streams[n]][pos[streams[n]]] = None
        /\ out # << >>
        /\ out[Len(out)][1] # streams[n]
        /\ gen = "running"

\* C5: whatever the cursors do, the consumer gets an article or the clean
\* end of the stream: no exception reaches it.
C5_NoExceptionToConsumer == exc = None /\ gen # "raised"

(***************************************************************************)
(* Fetcher and cache: idempotence (C6), validity (C7), retry (C8).         *)
(***************************************************************************)
\* C6: of two consecutive get_soup calls for one URL, the second returns the
\* content the first returned and makes no network request.
C6_CacheIdempotence ==
    (fpc = "returned" /\ last # Nothing /\ last[1][1] = fhref)
        => (ret = last[1][2] /\ calls = 0)

\* C7: get_soup returns without a network request only from a cache file
\* that exists and is not empty; on a missing or empty file it is in the
\* request loop, makes at least one request, and has overwritten the entry
\* with the fetched body when it returns.
C7_CacheValidity ==
    /\ fpc = "loop" =>
          \/ files[cache_loc(fhref)] = Nothing
          \/ files[cache_loc(fhref)] = Some(<< >>)
    /\ (fpc = "returned" /\ calls = 0) =>
          /\ files[cache_loc(fhref)] # Nothing
          /\ Len(files[cache_loc(fhref)][1]) > 0
          /\ content # Nothing
    /\ (fpc = "returned" /\ calls > 0) =>
          /\ content = Nothing
          /\ files[cache_loc(fhref)] = Some(ret)

\* an empty cache file was found for the URL, and the fetch went to the
\* network and overwrote it
C7_Witness ==
    /\ fpc = "returned"
    /\ last # Nothing
    /\ last[1][1] = fhref
    /\ last[1][2] = << >>
    /\ calls > 0
    /\ ret # << >>
    /\ files[cache_loc(fhref)] = Some(ret)

\* C8: on a miss, a non-200 response is followed by nothing but another GET
\* (no return, no cache write; the GET answers, or raises and ends the call
\* with its exception); when get_soup returns, the last response is a 200
\* whose body is both what was returned and what the cache holds under the
\* URL; and with an origin that answers 200 in the end, the loop is left.
C8_RetryUntilSuccess ==
    /\ []((fpc = "returned" /\ content = Nothing) =>
            /\ resp # Nothing
            /\ resp[1][1] = 200
            /\ ret = resp[1][2]
            /\ files[cache_loc(fhref)] = Some(resp[1][2]))
    /\ [][(fpc = "loop" /\ resp # Nothing /\ resp[1][1] # 200) =>
            /\ files' = files
            /\ fpc' # "returned"
            /\ fpc' = "loop" => calls' = calls + 1
            /\ fpc' # "loop" => fexc' = "RequestException"]_vars
    /\ (fpc = "loop" ~> fpc # "loop")

\* the origin refused as often as the model lets it, and the fetch still
\* ended with the body of the 200 that followed
C8_Witness ==
    /\ fpc = "returned"
    /\ calls = MaxAttempts + 1
    /\ resp # Nothing
    /\ ret = resp[1][2]

(***************************************************************************)
(* Resolver: which rule wins (C9), a missing title (C10).                  *)
(***************************************************************************)
\* identifier id occurs in u at index p (from 0)
OccursAt(id, u, p) ==
    /\ p >= 0
    /\ p + Len(id) <= Len(u)
    /\ \A k \in 1..Len(id) : u[p + k] = id[k]

\* the rules of parser_list whose identifier occurs in the candidate
Matching ==
    {n \in 1..Len(parser_list) :
        \E p \in 0..Len(cand) : OccursAt(parser_list[n][1], cand, p)}

\* the index of the first and of the last occurrence of rule n's identifier
FirstAt(n) ==
    CHOOSE p \in 0..Len(cand) :
        /\ OccursAt(parser_list[n][1], cand, p)
        /\ \A q \in 0..Len(cand) : OccursAt(parser_list[n][1], cand, q) => p <= q

LastAt(n) ==
    CHOOSE p \in 0..Len(cand) :
        /\ OccursAt(parser_list[n][1], cand, p)
        /\ \A q \in 0..Len(cand) : OccursAt(parser_list[n][1], cand, q) => q <= p

\* choose_parser has run for the candidate
Resolved == ppc \in {"chosen", "parsed"} \/ (ppc = "done" /\ ~Blacklisted(cand))

\* C9 as stated: the extractor returned is that of a matching rule whose
\* identifier occurs at the latest position in the URL; against the rules
\* ("site/news/", P1), ("site/news/sport/", P2), https://site/news/sport/123
\* resolves to P2 and https://site/news/politics/1 to P1.
C9_RightmostMatch ==
    /\ (Resolved /\ Matching # {}) =>
          \E n \in Matching :
              /\ parser = parser_list[n][2]
              /\ \A m \in Matching : LastAt(m) <= LastAt(n)
    /\ (Resolved /\ parser_list = ExampleRules /\ cand = ExampleSportUrl)
          => parser = ExampleRules[2][2]
    /\ (Resolved /\ parser_list = ExampleRules /\ cand = ExamplePoliticsUrl)
          => parser = ExampleRules[1][2]

\* C9 as amended: the extractor returned is that of the matching rule whose
\* identifier has its first occurrence at the earliest position in the URL,
\* the rule listed first among those that share that position; against the
\* rules ("site/news/", P1), ("site/news/sport/", P2), both
\* https://site/news/sport/123 and https://site/news/politics/1 resolve to P1.
C9_LeftmostMatch ==
    /\ (Resolved /\ Matching # {}) =>
          \E n \in Matching :
              /\ parser = parser_list[n][2]
              /\ \A m \in Matching :
                    \/ FirstAt(n) < FirstAt(m)
                    \/ (FirstAt(n) = FirstAt(m) /\ n <= m)
    /\ (Resolved /\ parser_list = ExampleRules /\ cand = ExampleSportUrl)
          => parser = ExampleRules[1][2]
    /\ (Resolved /\ parser_list = ExampleRules /\ cand = ExamplePoliticsUrl)
          => parser = ExampleRules[1][2]

\* two rules match at different places and the one listed second, whose
\* identifier comes first in the URL, was chosen
C9_Witness ==
    /\ Resolved
    /\ Cardinality(Matching) = 2
    /\ FirstAt(2) < FirstAt(1)
    /\ parser = parser_list[2][2]

\* the extractors whose get_title returns None when no title element is found
TolerantExtractors ==
    {"BBCArticleParser", "BBCThreeArticleParser", "BBCSportArticleParser",
     "BBCNewsroundArticleParser"}

\* C10: the chosen extractor finds no title element but the body container
\* is there: parse returns the paragraph texts joined by spaces, the title
\* counting as empty, and the URL is recorded as an article, not as a
\* failure.
C10_MissingTitleTolerated ==
    ( /\ ppc \in {"parsed", "done"}
      /\ parser \in TolerantExtractors
      /\ soup.title = Nothing
      /\ soup.body # Nothing )
    => /\ caught = None
       /\ article # Nothing
       /\ article[1] \in {Join(soup.body[1]), Join(<< << >> >> \o soup.body[1])}
       /\ ppc = "done" => (erroneous_hrefs = << >> /\ articles = <<article[1]>>)

(***************************************************************************)
(* Collector: what each source contributes to the output (C16).            *)
(***************************************************************************)
\* the articles of source s's stream, the transient failures left out
Expected(s) ==
    SelectSeq([n \in 1..Len(feed[s]) |-> Article(s, n)],
              LAMBDA a : feed[s][a[2]] # None)

\* the articles of source s among those emitted so far, in emission order
Emitted(s) == SelectSeq(out, LAMBDA a : a[1] = s)

\* C16: for every source, the emitted articles that came from it are a prefix
\* of its own stream with the transient failures removed, and the whole of it
\* once the Collector's stream has ended, whatever the other sources do.
C16_PerSourceOrderNoLoss ==
    \A s \in SourceNames :
        /\ IsPrefix(Emitted(s), Expected(s))
        /\ gen # "running" => Emitted(s) = Expected(s)

(***************************************************************************)
(* Cache: entries are stable (C17).                                        *)
(***************************************************************************)
\* the URL has a cache entry that is not empty
HasEntry(u) ==
    files[cache_loc(u)] # Nothing /\ files[cache_loc(u)] # Some(<< >>)

\* C17: a step that changes the non-empty entry of a URL is
\* _delete_content_from_cache of that URL, made outside any fetch, and it
\* removes the entry; no fetch of this or another URL changes it. A fetch
\* that finds no entry for its URL is a miss: it enters the request loop and
\* returns only after a network request.
C17_CacheEntryStable ==
    /\ [][\A u \in Urls :
            (HasEntry(u) /\ files'[cache_loc(u)] # files[cache_loc(u)]) =>
                /\ fpc = "idle" /\ fpc' = "idle"
                /\ files'[cache_loc(u)] = Nothing
                /\ \A v \in Urls \ {u} :
                      files'[cache_loc(v)] = files[cache_loc(v)]]_vars
    /\ [][(fpc = "idle" /\ fpc' # "idle") =>
            IF HasEntry(fhref')
            THEN fpc' = "returned" /\ calls' = 0
            ELSE fpc' = "loop" /\ content' = Nothing]_vars
    /\ []((fpc = "returned" /\ content = Nothing) => calls >= 1)

\* the non-empty entry of a URL was deleted and the fetch of that URL that
\* followed went to the network, while the entry of the other URL is still
\* there
C17_Witness ==
    \E u \in Urls :
        /\ fpc = "returned"
        /\ fhref = u
        /\ removed # Nothing
        /\ removed[1][1] = u
        /\ removed[1][2] # << >>
        /\ calls >= 1
        /\ \E v \in Urls \ {u} : HasEntry(v)

(***************************************************************************)
(* Resolver: a URL that no rule matches (C15).                             *)
(***************************************************************************)
\* C15: when no identifier of parser_list occurs in the candidate,
\* choose_parser selects no extractor, parse_article returns no article (the
\* exception it meets is caught, the call returns), and the turn of
\* fetch_new's loop ends with the URL in the failed-href list and nothing in
\* the article list.
C15_NoMatchIsParseFailure ==
    (Matching = {} /\ ~Blacklisted(cand)) =>
        /\ ppc \in {"chosen", "parsed", "done"} => parser = None
        /\ ppc \in {"parsed", "done"} => (article = Nothing /\ caught # None)
        /\ ppc = "done" => (erroneous_hrefs = <<cand>> /\ articles = << >>)

\* a candidate that none of two rules matches has been recorded as failed
C15_Witness ==
    /\ ppc = "done"
    /\ Len(parser_list) = 2
    /\ cand # << >>
    /\ Matching = {}
    /\ ~Blacklisted(cand)
    /\ erroneous_hrefs = <<cand>>

(***************************************************************************)
(* fetch_new: the denylist (C18).                                          *)
(***************************************************************************)
\* some entry of the denylist occurs in the candidate, as it is written
Denied ==
    \E n \in 1..Len(blacklist) :
        \E p \in 0..Len(cand) : OccursAt(blacklist[n], cand, p)

\* C18: a candidate that contains a denylist entry is skipped: the loop turn
\* ends at once, with no extractor resolved, no document fetched, and
\* nothing added to the article list or to the failed-href list; a candidate
\* that contains none goes to the resolver.
C18_DenylistSkip ==
    /\ [](Denied =>
            /\ ppc \in {"start", "done"}
            /\ parser = None
            /\ soup = NoSoup
            /\ article = Nothing
            /\ articles = << >>
            /\ erroneous_hrefs = << >>)
    /\ [][ppc = "start" =>
            IF Denied
            THEN ppc' = "done"
            ELSE ppc' = "resolve"]_vars
    /\ [][ppc = "resolve" =>
            (ppc' = "chosen" /\ parser' = choose_parser(parser_list, cand))]_vars

\* a candidate longer than the denylist entry it contains, which a rule of
\* the source matches, has been skipped
C18_Witness ==
    /\ ppc = "done"
    /\ \E n \in 1..Len(blacklist) :
          /\ Len(blacklist[n]) < Len(cand)
          /\ \E p \in 0..Len(cand) : OccursAt(blacklist[n], cand, p)
    /\ Matching # {}
    /\ articles = << >>
    /\ erroneous_hrefs = << >>

(***************************************************************************)
(* Resolver: fallback to other extractors (C12).                           *)
(***************************************************************************)
\* The extractors that could be tried after the one selected first: those of
\* the other rules whose identifier occurs in the candidate, in the order of
\* the rule list.
Fallbacks ==
    SelectSeq(MatchingRules(parser_list, cand), LAMBDA r : r[2] # parser)

\* those of them that extract an article from the page that was fetched
Succeeding ==
    SelectSeq(Fallbacks, LAMBDA r : parse(r[2], View(r[2], page)).exc = None)

RECURSIVE OnePerLine(_)
OnePerLine(list) ==
    IF list = << >> THEN << >>
    ELSE OnePerLine(SubSeq(list, 1, Len(list) - 1))
             \o list[Len(list)] \o <<LF>>

\* sub is made of elements of full, taken in the order they have in full
InOrder(sub, full) ==
    \E f \in [1..Len(sub) -> 1..Len(full)] :
        /\ \A m \in 1..Len(sub) : full[f[m]] = sub[m]
        /\ \A m, n \in 1..Len(sub) : m < n => f[m] < f[n]

\* C13: every run of fetch_new leaves the log of its source as it was, with
\* the run's failed hrefs added at the end, one per line, in link-discovery
\* order; the logs change at no other step, and no other source's log
\* changes. So each log is at all times the concatenation of the failed
\* hrefs of the runs of its source, run after run.
C13_LogAppendOnly ==
    /\ [][(fn = "loop" /\ fn' = "idle") =>
            /\ log' = [log EXCEPT
                         ![cls] = log[cls] \o OnePerLine(erroneous_hrefs)]
            /\ InOrder(erroneous_hrefs, hrefs)]_vars
    /\ [][log' # log => (fn = "loop" /\ fn' = "idle")]_vars
    /\ [](\A c \in LogNames :
            \E list \in SeqUpTo(SrcUrls, MaxHrefs) : log[c] = OnePerLine(list))

\* a run with failed hrefs has returned, and its source's log holds lines of
\* an earlier run before the lines of this one
C13_Witness ==
    /\ fn = "idle"
    /\ result # Nothing
    /\ erroneous_hrefs # << >>
    /\ Len(log[cls]) > Len(OnePerLine(erroneous_hrefs))
    /\ \E c \in LogNames \ {cls} : log[c] # << >>

\* the candidates of the run that the denylist did not skip, in order
NonSkipped == SelectSeq(hrefs, LAMBDA h : ~Blacklisted(h))

\* the indices up to n to which f gives the value b, in increasing order
RECURSIVE Picked(_, _, _)
Picked(n, f, b) ==
    IF n = 0 THEN << >>
    ELSE Picked(n - 1, f, b) \o (IF f[n] = b THEN <<n>> ELSE << >>)

\* text is the article of the page of href: it ends with the page's one
\* paragraph, which is the href
IsArticleOf(text, h) ==
    /\ Len(text) >= Len(h)
    /\ SubSeq(text, Len(text) - Len(h) + 1, Len(text)) = h

\* C19: when fetch_new has returned, the candidates the denylist did not
\* skip are split in two: those with an article in the returned list and
\* those in the failed-href list, each candidate in exactly one of them, both
\* lists in link-discovery order; so the two lengths add up to the number of
\* candidates not skipped.
C19_CandidatePartition ==
    (fn = "idle" /\ result # Nothing) =>
        /\ Len(result[1]) + Len(erroneous_hrefs) = Len(NonSkipped)
        /\ \E f \in [1..Len(NonSkipped) -> BOOLEAN] :
              LET good == Picked(Len(NonSkipped), f, TRUE)
                  bad  == Picked(Len(NonSkipped), f, FALSE)
              IN  /\ Len(result[1]) = Len(good)
                  /\ \A m \in 1..Len(good) :
                        IsArticleOf(result[1][m], NonSkipped[good[m]])
                  /\ erroneous_hrefs = [m \in 1..Len(bad) |-> NonSkipped[bad[m]]]

\* a run of scraper.py's fetch_new over three candidates has returned: one
\* was skipped, one gave an article, one failed
C19_Witness ==
    /\ mod = "scraper"
    /\ fn = "idle"
    /\ result # Nothing
    /\ Len(hrefs) = 3
    /\ Len(NonSkipped) = 2
    /\ Len(result[1]) = 1
    /\ Len(erroneous_hrefs) = 1

(***************************************************************************)
(* Cache under concurrent fetches (C14).                                   *)
(***************************************************************************)
\* C14: however the file operations of two fetches of one href interleave,
\* a fetch that is answered from the cache returns the complete body, and
\* when both fetches are over the cache file holds the complete body.
C14_ConcurrentCacheSafety ==
    /\ \A p \in Procs : rpc[p] = "hit" => got[p] = Some(body)
    /\ (\A p \in Procs : rpc[p] \in {"hit", "stored"}) => shared = Some(body)

====
